---- MODULE Spec2Model ----
(***************************************************************************)
(* Model of Task02/generate_db_init.py: the generator that turns the four  *)
(* MovieLens input files into the SQL script db_init.sql.                  *)
(*                                                                         *)
(* Text is modelled at character level: a Python str is a sequence of      *)
(* one-character strings, so quoting, trimming, parsing and joining are    *)
(* computed as the code computes them.  A Python value is a tagged record  *)
(* (None, str or int), because main() mixes the three in a movies row.     *)
(***************************************************************************)
EXTENDS Integers, Sequences, FiniteSets, TLC

VARIABLES
    pc,           \* position of main(): "check", "read", "assemble", "write", "done", "exit"
    present,      \* dataset -> whether os.path.exists holds for its path
    files,        \* dataset -> content of the input file, a sequence of lines
    opened,       \* the datasets whose file has been opened, in order
    table_rows,   \* dataset -> the row list main() holds for it
    sql_parts,    \* the list of blocks main() builds
    out_file,     \* db_init.sql: NotCreated, or Created(text)
    printed,      \* the lines printed to the console
    exit_status,  \* NoExit while running, then the status of the process
    arg,          \* argument of the function under test (function specifications)
    called,       \* whether the function under test has returned
    result        \* its return value

vars == <<pc, present, files, opened, table_rows, sql_parts, out_file, printed,
          exit_status, arg, called, result>>

mainVars == <<pc, present, files, opened, table_rows, sql_parts, out_file, printed,
              exit_status>>

fnVars == <<arg, called, result>>

(***************************************************************************)
(* Bounds of the model.                                                    *)
(***************************************************************************)
MaxLen == 4

MaxBody == 3

MaxRowLen == 5

MaxLines == 2

\* all sequences over S of length at most n
SeqsUpTo(S, n) == UNION {[1..k -> S] : k \in 0..n}

(***************************************************************************)
(* Python values.                                                          *)
(***************************************************************************)
None == [tag |-> "None"]

PyStr(s) == [tag |-> "str", s |-> s]

PyInt(n) == [tag |-> "int", n |-> n]

PyFloat(neg, ip, frac) == [tag |-> "float", neg |-> neg, ip |-> ip, frac |-> frac]

(***************************************************************************)
(* str methods used by the program.                                        *)
(***************************************************************************)
Whitespace == {" ", "\t"}

DigitChars == <<"0", "1", "2", "3", "4", "5", "6", "7", "8", "9">>

IsDigit(c) == \E i \in 1..Len(DigitChars) : DigitChars[i] = c

DigitVal(c) == (CHOOSE i \in 1..Len(DigitChars) : DigitChars[i] = c) - 1

RECURSIVE lstrip(_)
lstrip(s) ==
    IF s # <<>> /\ Head(s) \in Whitespace THEN lstrip(Tail(s)) ELSE s

RECURSIVE rstrip(_)
rstrip(s) ==
    IF s # <<>> /\ s[Len(s)] \in Whitespace THEN rstrip(SubSeq(s, 1, Len(s) - 1)) ELSE s

strip(s) == rstrip(lstrip(s))

\* s.replace(old, new) for a one-character old
RECURSIVE replace(_, _, _)
replace(s, old, new) ==
    IF s = <<>> THEN <<>>
    ELSE (IF Head(s) = old THEN new ELSE <<Head(s)>>) \o replace(Tail(s), old, new)

\* sep.join(parts)
RECURSIVE join(_, _)
join(sep, parts) ==
    IF parts = <<>> THEN <<>>
    ELSE IF Len(parts) = 1 THEN parts[1]
    ELSE parts[1] \o sep \o join(sep, Tail(parts))

\* sub in s
contains(s, sub) ==
    \/ sub = <<>>
    \/ \E i \in 1..(Len(s) - Len(sub) + 1) :
          s[i] = sub[1] /\ SubSeq(s, i, i + Len(sub) - 1) = sub

endswith(s, suffix) ==
    Len(s) >= Len(suffix) /\ SubSeq(s, Len(s) - Len(suffix) + 1, Len(s)) = suffix

UpperChars == <<"A","B","C","D","E","F","G","H","I","J","K","L","M",
                "N","O","P","Q","R","S","T","U","V","W","X","Y","Z">>

LowerChars == <<"a","b","c","d","e","f","g","h","i","j","k","l","m",
                "n","o","p","q","r","s","t","u","v","w","x","y","z">>

lowerChar(c) ==
    IF \E i \in 1..26 : UpperChars[i] = c
    THEN LowerChars[CHOOSE i \in 1..26 : UpperChars[i] = c]
    ELSE c

lower(s) == [i \in 1..Len(s) |-> lowerChar(s[i])]

\* str(n) of an int
RECURSIVE NatStr(_)
NatStr(n) ==
    IF n < 10 THEN <<DigitChars[n + 1]>>
    ELSE NatStr(n \div 10) \o <<DigitChars[(n % 10) + 1]>>

IntStr(n) == IF n < 0 THEN <<"-">> \o NatStr(-n) ELSE NatStr(n)

(***************************************************************************)
(* sql_quote, try_int, try_float.                                          *)
(***************************************************************************)
\* str(value) of a str or an int
py_str(value) == IF value.tag = "int" THEN IntStr(value.n) ELSE value.s

sql_quote_unescaped(value) ==
    IF value = None THEN <<"N","U","L","L">>
    ELSE <<"'">> \o py_str(value) \o <<"'">>

sql_quote(value) ==
    IF value = None THEN <<"N","U","L","L">>
    ELSE <<"'">> \o replace(py_str(value), "'", <<"'", "'">>) \o <<"'">>

\* the digits of an int or float literal: digits, single underscores between them
DigitGroup(s) ==
    /\ s # <<>>
    /\ IsDigit(s[1]) /\ IsDigit(s[Len(s)])
    /\ \A i \in 1..Len(s) : IsDigit(s[i]) \/ s[i] = "_"
    /\ \A i \in 1..(Len(s) - 1) : ~(s[i] = "_" /\ s[i + 1] = "_")

RECURSIVE DigitsVal(_)
DigitsVal(s) ==
    IF s = <<>> THEN 0
    ELSE IF s[Len(s)] = "_" THEN DigitsVal(SubSeq(s, 1, Len(s) - 1))
    ELSE 10 * DigitsVal(SubSeq(s, 1, Len(s) - 1)) + DigitVal(s[Len(s)])

HasSign(s) == s # <<>> /\ s[1] \in {"+", "-"}

Unsigned(s) == IF HasSign(s) THEN Tail(s) ELSE s

\* int(value): an int is returned as it is, a str is parsed, anything else raises
IntParses(value) ==
    \/ value.tag = "int"
    \/ value.tag = "str" /\ DigitGroup(Unsigned(strip(value.s)))

try_int_lenient(value) ==
    IF value.tag = "int" THEN value
    ELSE IF value.tag = "str" /\ Unsigned(strip(value.s)) # <<>>
    THEN PyInt(DigitsVal(SelectSeq(Unsigned(strip(value.s)), IsDigit)))
    ELSE None

try_int(value) ==
    IF ~IntParses(value) THEN None
    ELSE IF value.tag = "int" THEN value
    ELSE LET t == strip(value.s)
             n == DigitsVal(Unsigned(t))
         IN  PyInt(IF t[1] = "-" THEN -n ELSE n)

\* float(value) on decimal literals without exponent: [sign] digits [. [digits]]
\* or [sign] . digits, surrounded by optional whitespace
FloatParses(value) ==
    /\ value.tag = "str"
    /\ LET b == Unsigned(strip(value.s))
           dots == {i \in 1..Len(b) : b[i] = "."}
       IN  \/ dots = {} /\ DigitGroup(b)
           \/ \E d \in dots :
                 /\ dots = {d}
                 /\ LET l == SubSeq(b, 1, d - 1)
                        r == SubSeq(b, d + 1, Len(b))
                    IN  \/ DigitGroup(l) /\ (r = <<>> \/ DigitGroup(r))
                        \/ l = <<>> /\ DigitGroup(r)

RECURSIVE StripZeros(_)
StripZeros(s) ==
    IF s # <<>> /\ s[Len(s)] = "0" THEN StripZeros(SubSeq(s, 1, Len(s) - 1)) ELSE s

try_float(value) ==
    IF ~FloatParses(value) THEN None
    ELSE LET t == strip(value.s)
             b == Unsigned(t)
             d == IF \E i \in 1..Len(b) : b[i] = "."
                  THEN CHOOSE i \in 1..Len(b) : b[i] = "."
                  ELSE Len(b) + 1
         IN  PyFloat(t[1] = "-",
                     DigitsVal(SubSeq(b, 1, d - 1)),
                     StripZeros(SelectSeq(SubSeq(b, d + 1, Len(b)), IsDigit)))

\* str(fv) of a float in the range where Python prints positional notation
FloatStr(fv) ==
    (IF fv.neg THEN <<"-">> ELSE <<>>) \o NatStr(fv.ip) \o <<".">>
        \o (IF fv.frac = <<>> THEN <<"0">> ELSE fv.frac)

(***************************************************************************)
(* extract_year_and_clean_title.                                           *)
(***************************************************************************)
\* year_pattern = \((\d{4})\)\s*$ matches s from position i to the end
year_pattern_at(s, i) ==
    /\ i >= 1 /\ i + 5 <= Len(s)
    /\ s[i] = "("
    /\ \A k \in 1..4 : IsDigit(s[i + k])
    /\ s[i + 5] = ")"
    /\ \A j \in (i + 6)..Len(s) : s[j] \in Whitespace

\* year_pattern.search(s): the start of the leftmost match, 0 for no match
year_pattern_search(s) ==
    IF \E i \in 1..Len(s) : year_pattern_at(s, i)
    THEN CHOOSE i \in 1..Len(s) :
            /\ year_pattern_at(s, i)
            /\ \A j \in 1..(i - 1) : ~year_pattern_at(s, j)
    ELSE 0

\* year_pattern.sub("", s)
year_pattern_sub(s) ==
    LET m == year_pattern_search(s)
    IN  IF m = 0 THEN s ELSE SubSeq(s, 1, m - 1)

extract_keep_comma(raw_title) ==
    IF raw_title = None THEN <<None, None>>
    ELSE LET title == strip(raw_title.s)
             m == year_pattern_search(title)
         IN  IF m = 0 THEN <<PyStr(title), None>>
             ELSE <<PyStr(rstrip(year_pattern_sub(title))),
                    PyInt(DigitsVal(SubSeq(title, m + 1, m + 4)))>>

extract_year_and_clean_title(raw_title) ==
    IF raw_title = None THEN <<None, None>>
    ELSE LET title == strip(raw_title.s)
             m == year_pattern_search(title)
         IN  IF m = 0 THEN <<PyStr(title), None>>
             ELSE LET year == PyInt(DigitsVal(SubSeq(title, m + 1, m + 4)))
                      t1 == rstrip(year_pattern_sub(title))
                  IN  IF endswith(t1, <<",">>)
                      THEN <<PyStr(rstrip(SubSeq(t1, 1, Len(t1) - 1))), year>>
                      ELSE <<PyStr(t1), year>>

(***************************************************************************)
(* The fixed schemas and the input files.                                  *)
(***************************************************************************)
DATA_FILES ==
    << [key |-> "movies",  name |-> <<"m","o","v","i","e","s">>,  file |-> <<"m","o","v","i","e","s",".","c","s","v">>],
       [key |-> "ratings", name |-> <<"r","a","t","i","n","g","s">>, file |-> <<"r","a","t","i","n","g","s",".","c","s","v">>],
       [key |-> "tags",    name |-> <<"t","a","g","s">>,    file |-> <<"t","a","g","s",".","c","s","v">>],
       [key |-> "users",   name |-> <<"u","s","e","r","s">>,   file |-> <<"u","s","e","r","s",".","t","x","t">>] >>

Datasets == {DATA_FILES[i].key : i \in 1..Len(DATA_FILES)}

detect_movies_schema ==
    << <<<<"i","d">>, <<"I","N","T","E","G","E","R"," ","P","R","I","M","A","R","Y"," ","K","E","Y">>>>,
       <<<<"t","i","t","l","e">>, <<"T","E","X","T"," ","N","O","T"," ","N","U","L","L">>>>,
       <<<<"y","e","a","r">>, <<"I","N","T","E","G","E","R">>>>,
       <<<<"g","e","n","r","e","s">>, <<"T","E","X","T">>>> >>

detect_ratings_schema ==
    << <<<<"i","d">>, <<"I","N","T","E","G","E","R"," ","P","R","I","M","A","R","Y"," ","K","E","Y">>>>,
       <<<<"u","s","e","r","_","i","d">>, <<"I","N","T","E","G","E","R"," ","N","O","T"," ","N","U","L","L">>>>,
       <<<<"m","o","v","i","e","_","i","d">>, <<"I","N","T","E","G","E","R"," ","N","O","T"," ","N","U","L","L">>>>,
       <<<<"r","a","t","i","n","g">>, <<"R","E","A","L"," ","N","O","T"," ","N","U","L","L">>>>,
       <<<<"t","i","m","e","s","t","a","m","p">>, <<"I","N","T","E","G","E","R"," ","N","O","T"," ","N","U","L","L">>>> >>

detect_tags_schema ==
    << <<<<"i","d">>, <<"I","N","T","E","G","E","R"," ","P","R","I","M","A","R","Y"," ","K","E","Y">>>>,
       <<<<"u","s","e","r","_","i","d">>, <<"I","N","T","E","G","E","R"," ","N","O","T"," ","N","U","L","L">>>>,
       <<<<"m","o","v","i","e","_","i","d">>, <<"I","N","T","E","G","E","R"," ","N","O","T"," ","N","U","L","L">>>>,
       <<<<"t","a","g">>, <<"T","E","X","T"," ","N","O","T"," ","N","U","L","L">>>>,
       <<<<"t","i","m","e","s","t","a","m","p">>, <<"I","N","T","E","G","E","R"," ","N","O","T"," ","N","U","L","L">>>> >>

detect_users_schema ==
    << <<<<"i","d">>, <<"I","N","T","E","G","E","R"," ","P","R","I","M","A","R","Y"," ","K","E","Y">>>>,
       <<<<"n","a","m","e">>, <<"T","E","X","T"," ","N","O","T"," ","N","U","L","L">>>>,
       <<<<"e","m","a","i","l">>, <<"T","E","X","T"," ","N","O","T"," ","N","U","L","L">>>>,
       <<<<"g","e","n","d","e","r">>, <<"T","E","X","T">>>>,
       <<<<"r","e","g","i","s","t","e","r","_","d","a","t","e">>, <<"T","E","X","T"," ","N","O","T"," ","N","U","L","L">>>>,
       <<<<"o","c","c","u","p","a","t","i","o","n">>, <<"T","E","X","T">>>> >>

\* the columns and the table name main() passes for each dataset
Columns(d) ==
    CASE d = "movies"  -> detect_movies_schema
      [] d = "ratings" -> detect_ratings_schema
      [] d = "tags"    -> detect_tags_schema
      [] d = "users"   -> detect_users_schema

TableName(d) ==
    CASE d = "movies"  -> <<"m","o","v","i","e","s">>
      [] d = "ratings" -> <<"r","a","t","i","n","g","s">>
      [] d = "tags"    -> <<"t","a","g","s">>
      [] d = "users"   -> <<"u","s","e","r","s">>

Delimiter(d) == IF d = "users" THEN "|" ELSE ","

(***************************************************************************)
(* generate_create_table_sql, generate_insert_sql.                         *)
(***************************************************************************)
generate_create_table_sql(table_name, columns) ==
    LET cols_sql == join(<<",","\n"," "," "," "," ">>,
                         [k \in 1..Len(columns) |-> columns[k][1] \o <<" ">> \o columns[k][2]])
    IN  <<"D","R","O","P"," ","T","A","B","L","E"," ","I","F"," ","E","X","I","S","T","S"," ">> \o table_name \o <<";","\n","C","R","E","A","T","E"," ","T","A","B","L","E"," ">> \o table_name
            \o <<" ","(","\n"," "," "," "," ">> \o cols_sql \o <<"\n",")",";","\n">>

col_names_of(columns) == [k \in 1..Len(columns) |-> columns[k][1]]

index_one_based(col_names, name) ==
    CHOOSE i \in 1..Len(col_names) : col_names[i] = name

\* col_names.index(name), 0-based
index(col_names, name) ==
    (CHOOSE i \in 1..Len(col_names) :
        /\ col_names[i] = name
        /\ \A j \in 1..(i - 1) : col_names[j] # name) - 1

\* the literal appended to vals for the value v of a column of type ctype
emit_value(v, ctype) ==
    IF v = None \/ v = PyStr(<<>>) THEN <<"N","U","L","L">>
    ELSE IF contains(ctype, <<"I","N","T","E","G","E","R">>)
    THEN LET iv == try_int(v) IN IF iv = None THEN <<"N","U","L","L">> ELSE IntStr(iv.n)
    ELSE IF contains(ctype, <<"R","E","A","L">>)
    THEN LET fv == try_float(v) IN IF fv = None THEN <<"N","U","L","L">> ELSE FloatStr(fv)
    ELSE sql_quote(v)

\* vals after the inner loop over the columns, for the row r
row_vals(columns, r) ==
    [k \in 1..Len(columns) |->
        LET idx == index(col_names_of(columns), columns[k][1])
            v == IF idx < Len(r) THEN r[idx + 1] ELSE None
        IN  emit_value(v, columns[k][2])]

values_sql_of(columns, rows) ==
    [n \in 1..Len(rows) |-> <<"(">> \o join(<<","," ">>, row_vals(columns, rows[n])) \o <<")">>]

generate_insert_sql(table_name, columns, rows) ==
    LET values_sql == values_sql_of(columns, rows)
    IN  IF values_sql = <<>> THEN <<>>
        ELSE <<"I","N","S","E","R","T"," ","I","N","T","O"," ">> \o table_name \o <<" ","(">>
                \o join(<<","," ">>, col_names_of(columns)) \o <<")"," ","V","A","L","U","E","S","\n">>
                \o join(<<",","\n">>, values_sql) \o <<";","\n">>

(***************************************************************************)
(* read_csv_rows.  A file is its sequence of lines; the characters of the  *)
(* model exclude the double quote, so csv.reader splits at the delimiter.  *)
(***************************************************************************)
HeaderKeywords ==
    << <<"i","d">>, <<"t","i","t","l","e">>, <<"u","s","e","r","_","i","d">>, <<"m","o","v","i","e","_","i","d">>, <<"r","a","t","i","n","g">>,
       <<"t","i","m","e","s","t","a","m","p">>, <<"n","a","m","e">>, <<"e","m","a","i","l">> >>

\* f.readline(): the first line with its line end, "" for an empty file
readline(file) == IF file = <<>> THEN <<>> ELSE file[1] \o <<"\n">>

has_header_case_sensitive(file) ==
    \E k \in 1..Len(HeaderKeywords) : contains(readline(file), HeaderKeywords[k])

has_header_of(file) ==
    \E k \in 1..Len(HeaderKeywords) : contains(lower(readline(file)), HeaderKeywords[k])

\* one record of csv.reader: no fields for an empty line
RECURSIVE split(_, _)
split(line, delimiter) ==
    IF \E i \in 1..Len(line) : line[i] = delimiter
    THEN LET i == CHOOSE i \in 1..Len(line) :
                     line[i] = delimiter /\ \A j \in 1..(i - 1) : line[j] # delimiter
         IN  <<SubSeq(line, 1, i - 1)>> \o split(SubSeq(line, i + 1, Len(line)), delimiter)
    ELSE <<line>>

csv_record(line, delimiter) ==
    IF line = <<>> THEN <<>>
    ELSE LET fs == split(line, delimiter) IN [k \in 1..Len(fs) |-> PyStr(fs[k])]

NonBlankRow(row) == row # <<>> /\ \E k \in 1..Len(row) : strip(row[k].s) # <<>>

read_csv_rows_keep_header(file, delimiter) ==
    SelectSeq([n \in 1..Len(file) |-> csv_record(file[n], delimiter)], NonBlankRow)

read_csv_rows(file, delimiter) ==
    LET records == [n \in 1..Len(file) |-> csv_record(file[n], delimiter)]
        data == IF has_header_of(file) THEN Tail(records) ELSE records
    IN  SelectSeq(data, NonBlankRow)

(***************************************************************************)
(* main().                                                                 *)
(***************************************************************************)
NotCreated == [tag |-> "absent"]

Created(text) == [tag |-> "file", text |-> text]

NoExit == -1

\* the lines an input file of the model is made of
MovieLines ==
    { <<"m","o","v","i","e","I","d",",","t","i","t","l","e",",","g","e","n","r","e","s">>,
      <<"1",",","T","o","y"," ","S","t","o","r","y"," ","(","1","9","9","5",")",",","A","d","v","e","n","t","u","r","e","|","A","n","i","m","a","t","i","o","n">>,
      <<"x",","," ","(","1","9","9","5",")",",">>,
      <<"2",",","I","t","'","s">>,
      <<",",",">> }

\* the contents of the other three input files
OtherFiles(d) ==
    CASE d = "ratings" ->
            { <<>>,
              << <<"u","s","e","r","I","d",",","m","o","v","i","e","I","d",",","r","a","t","i","n","g",",","t","i","m","e","s","t","a","m","p">> >>,
              << <<"1",",","2",",","3",",","4",".","5",",","9">> >>,
              << <<"u","s","e","r","I","d",",","m","o","v","i","e","I","d",",","r","a","t","i","n","g",",","t","i","m","e","s","t","a","m","p">>, <<",",",",",",",">>, <<"1",",","2",",","3",",","4",".","5",",","9">> >> }
      [] d = "tags" ->
            { <<>>,
              << <<"i","d",",","u","s","e","r","_","i","d",",","m","o","v","i","e","_","i","d",",","t","a","g",",","t","i","m","e","s","t","a","m","p">> >>,
              << <<"1",",","2",",","3",",","i","t","'","s",",","9">> >>,
              << <<"i","d",",","u","s","e","r","_","i","d",",","m","o","v","i","e","_","i","d",",","t","a","g",",","t","i","m","e","s","t","a","m","p">>, <<"1",",","2",",","3",",","i","t","'","s",",","9">>, <<>> >> }
      [] d = "users" ->
            { <<>>,
              << <<" ","|"," ">> >>,
              << <<"1","|","A","n","n","|","a","@","b",".","c","|","F","|","2","0","2","0","-","0","1","-","0","1","|","x">> >>,
              << <<"1","|","A","n","n","|","a","@","b",".","c","|","F","|","2","0","2","0","-","0","1","-","0","1","|","x">>, <<" ","|"," ">>, <<"2","|","B","o","|","b","@","b",".","c">> >> }

FileContents(d) ==
    IF d = "movies" THEN SeqsUpTo(MovieLines, MaxLines) ELSE OtherFiles(d)

\* a missing file has no content
InputChoices(pres, d) == IF pres[d] THEN FileContents(d) ELSE {<<>>}

NoRows == [d \in Datasets |-> <<>>]

FnIdle == arg = None /\ called = FALSE /\ result = <<>>

Init ==
    /\ pc = "check"
    /\ present \in [Datasets -> BOOLEAN]
    /\ \E fm \in InputChoices(present, "movies"), fr \in InputChoices(present, "ratings"),
          ft \in InputChoices(present, "tags"), fu \in InputChoices(present, "users") :
          files = [movies |-> fm, ratings |-> fr, tags |-> ft, users |-> fu]
    /\ opened = <<>>
    /\ table_rows = NoRows
    /\ sql_parts = <<>>
    /\ out_file = NotCreated
    /\ printed = <<>>
    /\ exit_status = NoExit
    /\ FnIdle

\* missing = [k for k, p in paths.items() if not os.path.exists(p)]
missing_of(pres) ==
    LET keys == [i \in 1..Len(DATA_FILES) |-> DATA_FILES[i]]
        IsMissing(e) == ~pres[e.key]
        sel == SelectSeq(keys, IsMissing)
    IN  [i \in 1..Len(sel) |-> sel[i].name]

CheckInputs_no_exit ==
    /\ pc = "check"
    /\ LET missing == missing_of(present)
       IN  IF missing # <<>>
           THEN printed' = Append(printed, [msg |-> "missing_inputs",
                                           text |-> join(<<","," ">>, missing)])
           ELSE UNCHANGED printed
    /\ pc' = "read_movies"
    /\ UNCHANGED <<present, files, opened, table_rows, sql_parts, out_file, exit_status>>
    /\ UNCHANGED fnVars

CheckInputs ==
    /\ pc = "check"
    /\ LET missing == missing_of(present)
       IN  IF missing # <<>>
           THEN /\ printed' = Append(printed, [msg |-> "missing_inputs",
                                              text |-> join(<<","," ">>, missing)])
                /\ exit_status' = 1
                /\ pc' = "exit"
           ELSE /\ pc' = "read_movies"
                /\ UNCHANGED <<printed, exit_status>>
    /\ UNCHANGED <<present, files, opened, table_rows, sql_parts, out_file>>
    /\ UNCHANGED fnVars

movie_row_unsplit(r) ==
    <<IF Len(r) > 0 THEN r[1] ELSE None,
      IF Len(r) > 1 THEN r[2] ELSE None,
      IF Len(r) > 2 THEN r[3] ELSE None>>

\* the row main() appends to movie_rows for the raw row r
movie_row(r) ==
    LET movie_id == IF Len(r) > 0 THEN r[1] ELSE None
        raw_title == IF Len(r) > 1 THEN r[2] ELSE None
        genres == IF Len(r) > 2 THEN r[3] ELSE None
        ty == extract_year_and_clean_title(raw_title)
    IN  <<movie_id, ty[1], ty[2], genres>>

movie_rows_of(raw_movie_rows) ==
    [n \in 1..Len(raw_movie_rows) |-> movie_row(raw_movie_rows[n])]

\* the row list main() keeps for the dataset d read from file
rows_read(d, file) ==
    IF d = "movies" THEN movie_rows_of(read_csv_rows(file, Delimiter(d)))
    ELSE read_csv_rows(file, Delimiter(d))

Read(d, at, next) ==
    /\ pc = at
    /\ opened' = Append(opened, d)
    /\ table_rows' = [table_rows EXCEPT ![d] = rows_read(d, files[d])]
    /\ pc' = next
    /\ UNCHANGED <<present, files, sql_parts, out_file, printed, exit_status>>
    /\ UNCHANGED fnVars

ReadMovies == Read("movies", "read_movies", "read_ratings")

ReadRatings == Read("ratings", "read_ratings", "read_tags")

ReadTags == Read("tags", "read_tags", "read_users")

ReadUsers == Read("users", "read_users", "assemble")

HeaderComment == <<"-","-"," ","S","Q","L","i","t","e"," ","i","n","i","t"," ","s","c","r","i","p","t"," ","f","o","r"," ","m","o","v","i","e","s","_","r","a","t","i","n","g",".","d","b">>

PragmaLine == <<"P","R","A","G","M","A"," ","f","o","r","e","i","g","n","_","k","e","y","s"," ","="," ","O","F","F",";">>

BeginLine == <<"B","E","G","I","N"," ","T","R","A","N","S","A","C","T","I","O","N",";">>

CommitLine == <<"C","O","M","M","I","T",";">>

TableOrder == <<"movies", "ratings", "tags", "users">>

\* the part main() appends for the INSERT of d: nothing when its row list is empty
insert_parts(rows, d) ==
    IF rows[d] # <<>> THEN <<generate_insert_sql(TableName(d), Columns(d), rows[d])>> ELSE <<>>

build_sql_parts_interleaved(rows) ==
    <<HeaderComment, PragmaLine, BeginLine>>
        \o <<generate_create_table_sql(TableName("movies"), Columns("movies"))>>
        \o insert_parts(rows, "movies")
        \o <<generate_create_table_sql(TableName("ratings"), Columns("ratings"))>>
        \o insert_parts(rows, "ratings")
        \o <<generate_create_table_sql(TableName("tags"), Columns("tags"))>>
        \o insert_parts(rows, "tags")
        \o <<generate_create_table_sql(TableName("users"), Columns("users"))>>
        \o insert_parts(rows, "users")
        \o <<CommitLine>>

build_sql_parts_skip_empty(rows) ==
    LET NonEmpty(d) == rows[d] # <<>>
        ne == SelectSeq(TableOrder, NonEmpty)
    IN  <<HeaderComment, PragmaLine, BeginLine>>
            \o [k \in 1..Len(ne) |-> generate_create_table_sql(TableName(ne[k]), Columns(ne[k]))]
            \o insert_parts(rows, "movies") \o insert_parts(rows, "ratings")
            \o insert_parts(rows, "tags") \o insert_parts(rows, "users")
            \o <<CommitLine>>

build_sql_parts(rows) ==
    <<HeaderComment, PragmaLine, BeginLine>>
        \o [k \in 1..4 |-> generate_create_table_sql(TableName(TableOrder[k]),
                                                      Columns(TableOrder[k]))]
        \o insert_parts(rows, "movies") \o insert_parts(rows, "ratings")
        \o insert_parts(rows, "tags") \o insert_parts(rows, "users")
        \o <<CommitLine>>

Assemble ==
    /\ pc = "assemble"
    /\ sql_parts' = build_sql_parts(table_rows)
    /\ pc' = "write"
    /\ UNCHANGED <<present, files, opened, table_rows, out_file, printed, exit_status>>
    /\ UNCHANGED fnVars

NonEmptyPart(p) == p # <<>>

\* "\n\n".join([p for p in sql_parts if p])
script_text(parts) == join(<<"\n","\n">>, SelectSeq(parts, NonEmptyPart))

WriteScript ==
    /\ pc = "write"
    /\ out_file' = Created(script_text(sql_parts))
    /\ printed' = Append(printed, [msg |-> "created", text |-> <<"d","b","_","i","n","i","t",".","s","q","l">>])
    /\ exit_status' = 0
    /\ pc' = "done"
    /\ UNCHANGED <<present, files, opened, table_rows, sql_parts>>
    /\ UNCHANGED fnVars

Next ==
    \/ CheckInputs
    \/ ReadMovies
    \/ ReadRatings
    \/ ReadTags
    \/ ReadUsers
    \/ Assemble
    \/ WriteScript

Spec == Init /\ [][Next]_vars

(***************************************************************************)
(* Specifications of the functions alone: Init draws the argument, the     *)
(* action calls the function.  main() is idle in them.                     *)
(***************************************************************************)
MainIdle ==
    /\ pc = "idle"
    /\ present = [d \in Datasets |-> FALSE]
    /\ files = NoRows
    /\ opened = <<>>
    /\ table_rows = NoRows
    /\ sql_parts = <<>>
    /\ out_file = NotCreated
    /\ printed = <<>>
    /\ exit_status = NoExit

Return(value) ==
    /\ ~called
    /\ called' = TRUE
    /\ result' = value
    /\ UNCHANGED arg
    /\ UNCHANGED mainVars

\* sql_quote
QuoteChars == {"a", "'", " "}

InitQuote ==
    /\ MainIdle
    /\ arg \in {None} \cup {PyStr(s) : s \in SeqsUpTo(QuoteChars, MaxLen)}
    /\ called = FALSE
    /\ result = <<>>

CallQuote == Return(sql_quote(arg))

SpecQuote == InitQuote /\ [][CallQuote]_vars

\* extract_year_and_clean_title
TitleBodyChars == {"a", ",", " "}

TitleTails ==
    { <<>>, <<"(","1","9","9","5",")">>, <<" ","(","1","9","9","5",")">>, <<"(","1","9","9","5",")"," ">>, <<"(","1","9","9",")">>, <<"(","1","9","9","5","5",")">>,
      <<"(","1","9","9","5">>, <<"1","9","9","5",")">>, <<"(","1","9","a","5",")">>, <<"(","1","9","9","5",")","a">>, <<"(","1","9","9","5",")"," ","(","1","9","7","4",")">>,
      <<"(","1","9","9","5",")","(","0","0","7","4",")">>, <<","," ","(","1","9","7","4",")">> }

InitTitle ==
    /\ MainIdle
    /\ arg \in {None} \cup
           {PyStr(l \o b \o t) : l \in {<<>>, <<" ">>},
                                 b \in SeqsUpTo(TitleBodyChars, MaxBody),
                                 t \in TitleTails}
    /\ called = FALSE
    /\ result = <<>>

CallTitle == Return(extract_year_and_clean_title(arg))

SpecTitle == InitTitle /\ [][CallTitle]_vars

\* generate_insert_sql
FieldSamples == { PyStr(<<>>), PyStr(<<"1","2">>), PyStr(<<"x","'","y">>), PyStr(<<"4",".","5">>) }

MoreRows ==
    { <<PyStr(<<" ","-","7"," ">>), PyStr(<<"1","_","0">>), PyStr(<<"2">>), PyStr(<<"+",".","5","0">>), PyStr(<<"1","x">>),
        PyStr(<<"a",","," ","b">>)>>,
      <<PyStr(<<"1">>), None, PyInt(1995), None>> }

RowLists ==
    LET rs == SeqsUpTo(FieldSamples, MaxRowLen)
    IN  {<<>>} \cup {<<r>> : r \in rs} \cup {<<r, m>> : r \in rs, m \in MoreRows}

InitInsert ==
    /\ MainIdle
    /\ arg \in {[table |-> d, rows |-> rows] : d \in Datasets, rows \in RowLists}
    /\ called = FALSE
    /\ result = <<>>

CallInsert == Return(generate_insert_sql(TableName(arg.table), Columns(arg.table), arg.rows))

SpecInsert == InitInsert /\ [][CallInsert]_vars

\* read_csv_rows
ReaderLines ==
    { <<>>, <<"i","d",",","x">>, <<"I","D","|","T","i","t","l","e">>, <<"a",",","b">>, <<" ",","," ">>, <<"|">>, <<"1","|","D","a","v","i","d">>,
      <<"7",",","8","|","9">>, <<"U","s","e","r","N","a","m","e">> }

InitRead ==
    /\ MainIdle
    /\ arg \in {[file |-> f, delimiter |-> dl] :
                   f \in SeqsUpTo(ReaderLines, MaxLines), dl \in {",", "|"}}
    /\ called = FALSE
    /\ result = <<>>

CallRead == Return(read_csv_rows(arg.file, arg.delimiter))

SpecRead == InitRead /\ [][CallRead]_vars

(***************************************************************************)
(* Properties.                                                             *)
(***************************************************************************)
\* The standard SQL string-literal rule: inside the outer quotes every quote
\* stands in a pair, and each pair reads as one quote.
RECURSIVE PairsOnly(_)
PairsOnly(s) ==
    IF s = <<>> THEN TRUE
    ELSE IF s[1] # "'" THEN PairsOnly(Tail(s))
    ELSE Len(s) >= 2 /\ s[2] = "'" /\ PairsOnly(SubSeq(s, 3, Len(s)))

RECURSIVE Undouble(_)
Undouble(s) ==
    IF s = <<>> THEN <<>>
    ELSE IF s[1] = "'" THEN <<"'">> \o Undouble(SubSeq(s, 3, Len(s)))
    ELSE <<s[1]>> \o Undouble(Tail(s))

SqlLiteralReads(literal, v) ==
    /\ Len(literal) >= 2
    /\ literal[1] = "'" /\ literal[Len(literal)] = "'"
    /\ LET inner == SubSeq(literal, 2, Len(literal) - 1)
       IN  PairsOnly(inner) /\ Undouble(inner) = v

QuoteCount(s) == Cardinality({i \in 1..Len(s) : s[i] = "'"})

\* C4: for every non-empty text v, sql_quote(v) is v in single quotes with every
\* embedded quote doubled, and reading it back as an SQL string literal gives v.
C4_QuoteRoundTrip ==
    (called /\ arg # None /\ arg.s # <<>>) =>
        /\ Len(result) = Len(arg.s) + 2 + QuoteCount(arg.s)
        /\ SqlLiteralReads(result, arg.s)

C4_Witness ==
    /\ called
    /\ arg = PyStr(<<"a","'","a">>)
    /\ result = <<"'","a","'","'","a","'">>

\* The trimmed title, and the suffix "(YYYY)" at its end.
Trim(s) ==
    LET ink == {i \in 1..Len(s) : s[i] \notin Whitespace}
    IN  IF ink = {} THEN <<>>
        ELSE SubSeq(s, CHOOSE i \in ink : \A j \in ink : i <= j,
                       CHOOSE i \in ink : \A j \in ink : i >= j)

EndsWithYear(t) ==
    /\ Len(t) >= 6
    /\ t[Len(t) - 5] = "(" /\ t[Len(t)] = ")"
    /\ \A k \in 1..4 : IsDigit(t[Len(t) - 5 + k])

YearOf(t) ==
    LET n == Len(t) - 5
    IN  1000 * DigitVal(t[n + 1]) + 100 * DigitVal(t[n + 2])
            + 10 * DigitVal(t[n + 3]) + DigitVal(t[n + 4])

\* q is p without its trailing whitespace and without one comma that stood
\* (up to whitespace) at the very end of p; nothing else of p is touched.
CleanedIs(q, p) ==
    /\ Len(q) <= Len(p) /\ q = SubSeq(p, 1, Len(q))
    /\ q = <<>> \/ q[Len(q)] \notin Whitespace
    /\ LET rem == SubSeq(p, Len(q) + 1, Len(p))
           commas == {i \in 1..Len(rem) : rem[i] = ","}
       IN  /\ \A i \in 1..Len(rem) : rem[i] \in Whitespace \cup {","}
           /\ Cardinality(commas) <= 1
           /\ commas = {} => (q = <<>> \/ q[Len(q)] # ",")

\* C5: a title whose trimmed text ends with "(YYYY)" yields the year YYYY and the
\* text before the suffix, without trailing whitespace and without one trailing
\* comma; any other title yields year None and the trimmed text.
C5_TitleAndYear ==
    (called /\ arg # None) =>
        LET t == Trim(arg.s)
        IN  IF EndsWithYear(t)
            THEN /\ result[2] = PyInt(YearOf(t))
                 /\ result[1].tag = "str"
                 /\ CleanedIs(result[1].s, SubSeq(t, 1, Len(t) - 6))
            ELSE result = <<PyStr(t), None>>

C5_Witness ==
    /\ called
    /\ arg = PyStr(<<"a",",","a",","," ","(","1","9","7","4",")">>)
    /\ result = <<PyStr(<<"a",",","a">>), PyInt(1974)>>

\* Reading an INSERT statement as an SQL engine does: the parenthesised groups
\* outside string literals, each split at its top-level commas.  The first
\* group is the column list, the others are the row tuples.
TopLevel(text, c) ==
    {i \in 1..Len(text) :
        text[i] = c /\ Cardinality({j \in 1..(i - 1) : text[j] = "'"}) % 2 = 0}

Nth(S, k) == CHOOSE x \in S : Cardinality({y \in S : y < x}) = k - 1

LeadingSpaces(s) ==
    IF \A i \in 1..Len(s) : s[i] = " " THEN Len(s)
    ELSE (CHOOSE i \in 1..Len(s) : s[i] # " " /\ \A j \in 1..(i - 1) : s[j] = " ") - 1

\* the values between the parentheses at lo and hi
SqlValues(text, lo, hi, commas) ==
    LET seps == {i \in commas : lo < i /\ i < hi}
        n == Cardinality(seps) + 1
    IN  [j \in 1..n |->
            LET from == (IF j = 1 THEN lo ELSE Nth(seps, j - 1)) + 1
                to == (IF j = n THEN hi ELSE Nth(seps, j)) - 1
                raw == SubSeq(text, from, to)
            IN  SubSeq(raw, LeadingSpaces(raw) + 1, Len(raw))]

SqlGroups(text) ==
    LET opens == TopLevel(text, "(")
        closes == TopLevel(text, ")")
        commas == TopLevel(text, ",")
    IN  [k \in 1..Cardinality(opens) |->
            SqlValues(text, Nth(opens, k), Nth(closes, k), commas)]

InsertTuples(text) == IF text = <<>> THEN <<>> ELSE Tail(SqlGroups(text))

NullLiteral == <<"N","U","L","L">>

ColumnType(d, k) == Columns(d)[k][2]

\* C3: a non-empty field of an INTEGER or REAL column that fails integer
\* (respectively floating-point) parsing is emitted as the unquoted text NULL,
\* and every row is emitted: no field value makes the call fail.
C3_BadNumberIsNull ==
    called =>
        LET T == InsertTuples(result)
        IN  /\ Len(T) = Len(arg.rows)
            /\ \A n \in 1..Len(arg.rows) : \A k \in 1..Len(Columns(arg.table)) :
                  LET r == arg.rows[n]
                      ctype == ColumnType(arg.table, k)
                  IN  ( /\ k <= Len(r)
                        /\ r[k].tag = "str" /\ r[k].s # <<>>
                        /\ \/ contains(ctype, <<"I","N","T","E","G","E","R">>) /\ ~IntParses(r[k])
                           \/ contains(ctype, <<"R","E","A","L">>) /\ ~FloatParses(r[k]) )
                      => T[n][k] = NullLiteral

C3_Witness ==
    /\ called
    /\ arg = [table |-> "ratings",
              rows |-> << <<PyStr(<<"1","2">>), PyStr(<<"4",".","5">>), PyStr(<<"1","2">>), PyStr(<<"x","'","y">>)>> >>]
    /\ InsertTuples(result) = << <<<<"1","2">>, NullLiteral, <<"1","2">>, NullLiteral, NullLiteral>> >>

\* C10: the value at a column's position comes from the row field at the same
\* position, positions past the end of the row are NULL, and every tuple has
\* as many values as the table has declared columns.
C10_PositionalValues ==
    called =>
        LET T == InsertTuples(result)
            cols == Columns(arg.table)
        IN  /\ Len(T) = Len(arg.rows)
            /\ \A n \in 1..Len(arg.rows) :
                  /\ Len(T[n]) = Len(cols)
                  /\ \A k \in 1..Len(cols) :
                        T[n][k] = IF k <= Len(arg.rows[n])
                                  THEN emit_value(arg.rows[n][k], cols[k][2])
                                  ELSE NullLiteral

C10_Witness ==
    /\ called
    /\ arg = [table |-> "tags",
              rows |-> << <<PyStr(<<"1","2">>), PyStr(<<"4",".","5">>), PyStr(<<"1","2">>)>>,
                          <<PyStr(<<"1">>), None, PyInt(1995), None>> >>]
    /\ InsertTuples(result) =
          << <<<<"1","2">>, NullLiteral, <<"1","2">>, NullLiteral, NullLiteral>>,
             <<<<"1">>, NullLiteral, <<"1","9","9","5">>, NullLiteral, NullLiteral>> >>

\* The header rule as the specification words it.
KeywordSet ==
    { <<"i","d">>, <<"t","i","t","l","e">>, <<"u","s","e","r","_","i","d">>, <<"m","o","v","i","e","_","i","d">>, <<"r","a","t","i","n","g">>, <<"t","i","m","e","s","t","a","m","p">>,
      <<"n","a","m","e">>, <<"e","m","a","i","l">> }

HasKeyword(line) ==
    \E kw \in KeywordSet : \E i \in 0..(Len(line) - Len(kw)) :
        \A j \in 1..Len(kw) : lowerChar(line[i + j]) = kw[j]

HeaderDetected(file) == file # <<>> /\ HasKeyword(file[1])

\* a line all of whose fields are blank after trimming
BlankLine(line, delimiter) ==
    \A i \in 1..Len(line) : line[i] \in Whitespace \cup {delimiter}

DataLines(file, delimiter) ==
    LET Kept(line) == ~BlankLine(line, delimiter)
    IN  SelectSeq(IF HeaderDetected(file) THEN Tail(file) ELSE file, Kept)

FieldsOf(row) == [k \in 1..Len(row) |-> row[k].s]

\* C9: the first line is skipped exactly when, lower-cased, it contains one of
\* the eight keywords; otherwise every line is data; only blank rows are dropped.
C9_HeaderRule ==
    called =>
        LET kept == DataLines(arg.file, arg.delimiter)
        IN  /\ Len(result) = Len(kept)
            /\ \A n \in 1..Len(kept) :
                  /\ join(<<arg.delimiter>>, FieldsOf(result[n])) = kept[n]
                  /\ \A k \in 1..Len(result[n]) :
                        ~contains(result[n][k].s, <<arg.delimiter>>)

C9_Witness ==
    /\ called
    /\ arg = [file |-> <<<<"I","D","|","T","i","t","l","e">>, <<"1","|","D","a","v","i","d">>>>, delimiter |-> "|"]
    /\ result = << <<PyStr(<<"1">>), PyStr(<<"D","a","v","i","d">>)>> >>

\* Observations on a finished run of main().
startswith(s, prefix) == Len(s) >= Len(prefix) /\ SubSeq(s, 1, Len(prefix)) = prefix

FixedOrder == <<"movies", "ratings", "tags", "users">>

CreatePrefix(d) ==
    <<"D","R","O","P"," ","T","A","B","L","E"," ","I","F"," ","E","X","I","S","T","S"," ">> \o TableName(d) \o <<";","\n","C","R","E","A","T","E"," ","T","A","B","L","E"," ">> \o TableName(d) \o <<" ","(">>

InsertPrefix(d) == <<"I","N","S","E","R","T"," ","I","N","T","O"," ">> \o TableName(d) \o <<" ","(">>

\* the number of data rows of the input file of d
DataRowCount(d) == Len(DataLines(files[d], Delimiter(d)))

HasData(d) == DataRowCount(d) > 0

BlockSeparator == <<"\n","\n">>

\* C1: the written script is, in this order, the header comment, the PRAGMA
\* line, BEGIN TRANSACTION, the DROP+CREATE blocks of movies, ratings, tags and
\* users, the INSERT blocks of the datasets that have data in the same order,
\* and COMMIT last, for every combination of empty and non-empty datasets.
C1_BlockOrder ==
    pc = "done" =>
        LET filled == SelectSeq(FixedOrder, HasData)
            n == Len(sql_parts)
        IN  /\ n = 8 + Len(filled)
            /\ startswith(sql_parts[1], <<"-","-">>)
            /\ sql_parts[2] = <<"P","R","A","G","M","A"," ","f","o","r","e","i","g","n","_","k","e","y","s"," ","="," ","O","F","F",";">>
            /\ sql_parts[3] = <<"B","E","G","I","N"," ","T","R","A","N","S","A","C","T","I","O","N",";">>
            /\ \A k \in 1..4 : startswith(sql_parts[3 + k], CreatePrefix(FixedOrder[k]))
            /\ \A j \in 1..Len(filled) : startswith(sql_parts[7 + j], InsertPrefix(filled[j]))
            /\ sql_parts[n] = <<"C","O","M","M","I","T",";">>
            /\ out_file = Created(join(BlockSeparator, sql_parts))

C1_Witness ==
    /\ pc = "done"
    /\ HasData("movies") /\ ~HasData("ratings") /\ HasData("tags") /\ ~HasData("users")
    /\ Len(sql_parts) = 10
    /\ startswith(sql_parts[9], InsertPrefix("tags"))

MissingNames ==
    LET Gone(d) == ~present[d]
        gone == SelectSeq(FixedOrder, Gone)
    IN  join(<<","," ">>, [i \in 1..Len(gone) |-> TableName(gone[i])])

\* C2: when an input file is missing, the run never opens an input file and
\* never creates db_init.sql, and once past the check it has exited with a
\* non-zero status after reporting exactly the names of the missing files.
C2_MissingInputAborts ==
    (\E d \in Datasets : ~present[d]) =>
        /\ opened = <<>>
        /\ out_file = NotCreated
        /\ pc \in {"check", "exit"}
        /\ pc = "exit" =>
              /\ exit_status > 0
              /\ printed = <<[msg |-> "missing_inputs", text |-> MissingNames]>>

C2_Witness ==
    /\ pc = "exit"
    /\ present = [movies |-> TRUE, ratings |-> FALSE, tags |-> TRUE, users |-> FALSE]
    /\ printed[1].text = <<"r","a","t","i","n","g","s",","," ","u","s","e","r","s">>
    /\ exit_status = 1

\* C6: a dataset without data rows keeps its DROP+CREATE block and gets no
\* INSERT statement, and the written text shows no empty block: it neither
\* starts nor ends with a line end and has no run of four line ends.
C6_EmptyDataset ==
    pc = "done" =>
        \A d \in Datasets : ~HasData(d) =>
            /\ contains(out_file.text, CreatePrefix(d))
            /\ ~contains(out_file.text, <<"I","N","S","E","R","T"," ","I","N","T","O"," ">> \o TableName(d))
            /\ ~contains(out_file.text, <<"\n","\n","\n","\n">>)
            /\ out_file.text[1] # "\n"
            /\ out_file.text[Len(out_file.text)] # "\n"
            /\ out_file.text = join(BlockSeparator, SelectSeq(sql_parts, NonEmptyPart))

C6_Witness ==
    /\ pc = "done"
    /\ files["movies"] = <<<<"m","o","v","i","e","I","d",",","t","i","t","l","e",",","g","e","n","r","e","s">>, <<",",",">>>>
    /\ HasData("ratings")
    /\ ~contains(out_file.text, <<"I","N","S","E","R","T"," ","I","N","T","O"," ","m","o","v","i","e","s">>)
    /\ contains(out_file.text, <<"I","N","S","E","R","T"," ","I","N","T","O"," ","r","a","t","i","n","g","s">>)

\* the tuples of the INSERT statement written for d, none when there is no statement
InsertBlocks(d) ==
    LET IsInsert(p) == startswith(p, InsertPrefix(d))
    IN  SelectSeq(sql_parts, IsInsert)

WrittenTuples(d) ==
    IF InsertBlocks(d) = <<>> THEN <<>> ELSE InsertTuples(InsertBlocks(d)[1])

\* the raw movies rows, as the fields of the data lines of movies.csv
RawMovieRows ==
    LET lines == DataLines(files["movies"], ",")
    IN  [n \in 1..Len(lines) |-> split(lines[n], ",")]

IsIntegerLiteral(s) ==
    /\ s # <<>>
    /\ LET digits == IF s[1] = "-" THEN Tail(s) ELSE s
       IN  digits # <<>> /\ \A i \in 1..Len(digits) : IsDigit(digits[i])

YearLiteral(year) == IF year = None THEN NullLiteral ELSE IntStr(year.n)

QuotedOrNull(text) == IF text = <<>> THEN NullLiteral ELSE sql_quote(PyStr(text))

IntegerOrNull(text) ==
    IF text # <<>> /\ IntParses(PyStr(text)) THEN IntStr(try_int(PyStr(text)).n)
    ELSE NullLiteral

\* C7 as stated: every raw movies row of three fields is emitted as (integer
\* id, quoted cleaned title, integer year or NULL, quoted genres).
C7_AsStated ==
    pc = "done" =>
        LET T == WrittenTuples("movies")
        IN  \A n \in 1..Len(RawMovieRows) :
                LET r == RawMovieRows[n]
                    ty == extract_year_and_clean_title(PyStr(r[2]))
                IN  Len(r) = 3 =>
                      /\ Len(table_rows["movies"][n]) = 4
                      /\ IsIntegerLiteral(T[n][1])
                      /\ T[n] = << T[n][1], sql_quote(ty[1]),
                                   YearLiteral(ty[2]), sql_quote(PyStr(r[3])) >>

\* C7 as amended: every raw movies row [id, title, genres] becomes the row
\* [id, cleaned title, year, genres] of four values, emitted as (integer id,
\* quoted cleaned title, integer year or NULL, quoted genres), where an id
\* that is empty or no integer, an empty cleaned title and an empty genres
\* field are each emitted as NULL.
C7_MovieTuple ==
    pc = "done" =>
        LET T == WrittenTuples("movies")
        IN  \A n \in 1..Len(RawMovieRows) :
                LET r == RawMovieRows[n]
                    ty == extract_year_and_clean_title(PyStr(r[2]))
                IN  Len(r) = 3 =>
                      /\ table_rows["movies"][n] = <<PyStr(r[1]), ty[1], ty[2], PyStr(r[3])>>
                      /\ T[n] = << IntegerOrNull(r[1]), QuotedOrNull(ty[1].s),
                                   YearLiteral(ty[2]), QuotedOrNull(r[3]) >>

C7_Witness ==
    /\ pc = "done"
    /\ files["movies"] = <<<<"1",",","T","o","y"," ","S","t","o","r","y"," ","(","1","9","9","5",")",",","A","d","v","e","n","t","u","r","e","|","A","n","i","m","a","t","i","o","n">>, <<"x",","," ","(","1","9","9","5",")",",">>>>
    /\ WrittenTuples("movies") =
          << <<<<"1">>, <<"'","T","o","y"," ","S","t","o","r","y","'">>, <<"1","9","9","5">>, <<"'","A","d","v","e","n","t","u","r","e","|","A","n","i","m","a","t","i","o","n","'">>>>,
             <<NullLiteral, NullLiteral, <<"1","9","9","5">>, NullLiteral>> >>

HeaderLines(d) == IF HeaderDetected(files[d]) THEN 1 ELSE 0

\* C8 as stated: the INSERT statement of a table has as many tuples as the
\* input file has rows, less one for a detected header line.
C8_AsStated ==
    pc = "done" =>
        \A d \in Datasets :
            Len(WrittenTuples(d)) = Len(files[d]) - HeaderLines(d)

\* C8 as amended: the INSERT statement of a table has as many tuples as the
\* input file has rows that are not blank, not counting a detected header
\* line; with no such row there is no INSERT statement.
C8_TupleCount ==
    pc = "done" =>
        \A d \in Datasets :
            /\ Len(WrittenTuples(d)) = DataRowCount(d)
            /\ Len(InsertBlocks(d)) = (IF DataRowCount(d) = 0 THEN 0 ELSE 1)

C8_Witness ==
    /\ pc = "done"
    /\ files["movies"] = <<<<",",",">>, <<"1",",","T","o","y"," ","S","t","o","r","y"," ","(","1","9","9","5",")",",","A","d","v","e","n","t","u","r","e","|","A","n","i","m","a","t","i","o","n">>>>
    /\ files["users"] = <<<<" ","|"," ">>>>
    /\ Len(WrittenTuples("movies")) = 1
    /\ InsertBlocks("users") = <<>>

====
